---- MODULE Spec2Model ----
(***************************************************************************)
(* A model of src/PDFProcessor.py: the PDFProcessor class.                 *)
(*                                                                         *)
(* Strings are sequences of one-character strings ("" is << >>, " a" is    *)
(* <<" ", "a">>), so that whitespace normalisation and the building of     *)
(* suffixed field names are computed, not assumed.  Python's None is the   *)
(* sequence <<"None">>, which is no string because "None" is no character. *)
(* An optional constructor argument is << >> when it is None and <<v>>     *)
(* when it is the value v.                                                 *)
(*                                                                         *)
(* The regular-expression engine is outside the repository.  A text line   *)
(* is modelled by what regex.search(line) returns for each configured      *)
(* pattern: no match, or the tuple match.groups(), in which a group that   *)
(* did not participate is None.  The pages of the document are flattened   *)
(* into one stream of lines: the live record is carried across pages and   *)
(* nothing else depends on page boundaries.                                *)
(***************************************************************************)
EXTENDS Integers, Sequences, FiniteSets, TLC

VARIABLES
    pc,                 \* position of the caller: see the actions
    regexes_arg,        \* __init__ argument regexes (optional)
    required_arg,       \* __init__ argument required_fields (optional)
    regex_mode_enabled, \* self.regex_mode_enabled
    regexes,            \* self.regexes: ordered pattern specs
    Line,               \* self.Line._fields: the ordered field names
    required_fields,    \* self.required_fields
    record,             \* the local variable record of process_pdf
    line,               \* the local variable line of process_pdf (optional)
    lineNo,             \* number of lines read so far by process_pdf
    opened,             \* the with statement of process_pdf was entered: the
                        \* document is opened and the csv file created/truncated
    csvfile,            \* the rows written to the csv file, in order
    rowLine,            \* history: for each data row, the line number it was written at
    error,              \* the exception that left the last call, or "none"
    ret,                \* return value of a directly called method
    ret2                \* return value of a second direct call

vars == <<pc, regexes_arg, required_arg, regex_mode_enabled, regexes, Line,
          required_fields, record, line, lineNo, opened, csvfile, rowLine,
          error, ret, ret2>>

----------------------------------------------------------------------------
(* Bounds *)

MaxLines == 2       \* lines in the document
MaxStrLen == 3      \* length of the strings given to parse_record directly

----------------------------------------------------------------------------
(* Values *)

None == <<"None">>

Whitespace == {" ", "\t"}
Chars == {"a"} \cup Whitespace

RECURSIVE StringsUpTo(_)
StringsUpTo(n) ==
    IF n = 0 THEN {<< >>}
    ELSE LET shorter == StringsUpTo(n - 1)
         IN  shorter \cup {Append(s, c) : s \in {t \in shorter : Len(t) = n - 1}, c \in Chars}

Range(s) == {s[i] : i \in DOMAIN s}

NoDuplicates(s) == \A i, j \in DOMAIN s : i # j => s[i] # s[j]

\* Python truthiness of an optional string: None and "" are falsy.
Truthy(v) == v # None /\ v # << >>

----------------------------------------------------------------------------
(* Pure helpers of the class *)

DropLeadingWhitespace(s) ==
    LET first == {i \in 1..Len(s) : s[i] \notin Whitespace}
    IN  IF first = {} THEN << >>
        ELSE LET k == CHOOSE i \in first : \A j \in first : i <= j
             IN  SubSeq(s, k, Len(s))

DropTrailingWhitespace(s) ==
    LET last == {i \in 1..Len(s) : s[i] \notin Whitespace}
    IN  IF last = {} THEN << >>
        ELSE LET k == CHOOSE i \in last : \A j \in last : j <= i
             IN  SubSeq(s, 1, k)

\* str.strip()
Strip(s) == DropTrailingWhitespace(DropLeadingWhitespace(s))

\* re.sub(r'\s+', ' ', s): every maximal run of whitespace becomes one space
RECURSIVE CollapseWhitespace(_)
CollapseWhitespace(s) ==
    IF s = << >> THEN << >>
    ELSE IF Head(s) \in Whitespace
         THEN <<" ">> \o CollapseWhitespace(DropLeadingWhitespace(Tail(s)))
         ELSE <<Head(s)>> \o CollapseWhitespace(Tail(s))

\* the value computed for one field by the comprehension of parse_record
CleanedValue(v) == IF Truthy(v) THEN Strip(CollapseWhitespace(v)) ELSE None

parse_record(r) == [f \in DOMAIN r |-> CleanedValue(r[f])]

\* a name that every namedtuple has as an attribute without it being a
\* field: the tuple method count (index, _fields, _replace, ... are alike)
count == <<"c", "o", "u", "n", "t">>

TupleAttributes == {count}

\* all(getattr(record, field) for field in self.required_fields): the fields
\* are read in list order and all() stops at the first falsy value.  getattr
\* of a field is its value; of another attribute of the namedtuple, a bound
\* method, which is truthy; of any other name, it raises AttributeError.
RECURSIVE AllFrom(_, _, _)
AllFrom(r, required, i) ==
    IF i > Len(required) THEN "True"
    ELSE IF required[i] \in DOMAIN r
         THEN IF ~Truthy(r[required[i]]) THEN "False"
              ELSE AllFrom(r, required, i + 1)
    ELSE IF required[i] \in TupleAttributes THEN AllFrom(r, required, i + 1)
    ELSE "AttributeError"

is_record_complete(r, required) == AllFrom(r, required, 1)

\* str(i + 1) for the group indexes the model uses
Digits == <<"1", "2", "3", "4", "5", "6", "7", "8", "9">>

\* f"{field}_{i + 1}" with i + 1 = k
Suffixed(field, k) == field \o <<"_", Digits[k]>>

\* PatternFields with a bug: the name of a one-group pattern is suffixed too
PatternFieldsAlwaysSuffixed(p) == [k \in 1..p.groups |-> Suffixed(p.name, k)]

\* the names one pattern contributes to field_names
PatternFields(p) ==
    IF p.groups = 1 THEN <<p.name>>
    ELSE [k \in 1..p.groups |-> Suffixed(p.name, k)]

RECURSIVE FieldNamesFrom(_, _)
FieldNamesFrom(rs, i) ==
    IF i > Len(rs) THEN << >>
    ELSE PatternFields(rs[i]) \o FieldNamesFrom(rs, i + 1)

\* the loop building field_names in initialize_regex_mode
field_names(rs) == FieldNamesFrom(rs, 1)

\* self.Line(*([None] * len(self.Line._fields)))
empty_record(fields) == [f \in Range(fields) |-> None]

\* ApplyMatch with a bug: a pattern that does not match clears its fields
ApplyMatchClearsOnMiss(r, p, m) ==
    IF m = << >>
    THEN [f \in DOMAIN r |->
            IF f \in Range(PatternFields(p)) THEN None ELSE r[f]]
    ELSE LET groups == m[1]
         IN  IF Len(groups) = 1
             THEN [r EXCEPT ![p.name] = groups[1]]
             ELSE [f \in DOMAIN r |->
                     IF \E k \in 1..Len(groups) : f = Suffixed(p.name, k)
                     THEN groups[CHOOSE k \in 1..Len(groups) : f = Suffixed(p.name, k)]
                     ELSE r[f]]

\* ApplyMatch with a bug: a group that did not participate leaves its field
\* as it was
ApplyMatchSkipsNoneGroups(r, p, m) ==
    IF m = << >> THEN r
    ELSE LET groups == m[1]
         IN  IF Len(groups) = 1
             THEN [r EXCEPT ![p.name] = groups[1]]
             ELSE [f \in DOMAIN r |->
                     IF \E k \in 1..Len(groups) :
                            f = Suffixed(p.name, k) /\ groups[k] # None
                     THEN groups[CHOOSE k \in 1..Len(groups) : f = Suffixed(p.name, k)]
                     ELSE r[f]]

\* ApplyMatch with a bug: a one-group match starts from the empty record, so
\* it erases the fields of the other patterns
ApplyMatchResetsOthers(r, p, m) ==
    IF m = << >> THEN r
    ELSE LET groups == m[1]
         IN  IF Len(groups) = 1
             THEN [f \in DOMAIN r |-> IF f = p.name THEN groups[1] ELSE None]
             ELSE [f \in DOMAIN r |->
                     IF \E k \in 1..Len(groups) : f = Suffixed(p.name, k)
                     THEN groups[CHOOSE k \in 1..Len(groups) : f = Suffixed(p.name, k)]
                     ELSE r[f]]

\* the fields one pattern writes when regex.search(line) returned match m
\* (<< >> for no match, <<groups>> for a match)
ApplyMatch(r, p, m) ==
    IF m = << >> THEN r
    ELSE LET groups == m[1]
         IN  IF Len(groups) = 1
             THEN [r EXCEPT ![p.name] = groups[1]]
             ELSE [f \in DOMAIN r |->
                     IF \E k \in 1..Len(groups) : f = Suffixed(p.name, k)
                     THEN groups[CHOOSE k \in 1..Len(groups) : f = Suffixed(p.name, k)]
                     ELSE r[f]]

RECURSIVE ExtractFrom(_, _, _, _)
ExtractFrom(rs, ln, r, i) ==
    IF i > Len(rs) THEN r
    ELSE ExtractFrom(rs, ln, ApplyMatch(r, rs[i], ln[i]), i + 1)

\* extract_data_from_line: the patterns are tried in dictionary order
extract_data_from_line(rs, ln, r) == ExtractFrom(rs, ln, r, 1)

\* csv.writer.writerow: None is written as the empty string
CsvCell(v) == IF v = None THEN << >> ELSE v

CsvRow(fields, r) == [i \in 1..Len(fields) |-> CsvCell(r[fields[i]])]

----------------------------------------------------------------------------
(* Inputs *)

x == <<"x">>
y == <<"y">>
x_1 == <<"x", "_", "1">>

\* the patterns a configuration is built from: a name and the number of
\* capture groups of its compiled pattern (re.compile(regex).groups)
PatternSpecs ==
    {[name |-> x, groups |-> g] : g \in 0..2}
        \cup {[name |-> y, groups |-> 1], [name |-> x_1, groups |-> 1]}

\* a dictionary: insertion-ordered, its keys distinct
RegexConfigs ==
    {<< >>} \cup {<<p>> : p \in PatternSpecs}
        \cup {c \in {<<p, q>> : p \in PatternSpecs, q \in PatternSpecs} :
                c[1].name # c[2].name}

RequiredNames == {x, y, x_1}

RequiredLists ==
    {<< >>} \cup {<<f>> : f \in RequiredNames \cup TupleAttributes}
        \cup {<<f, g>> : f \in RequiredNames, g \in RequiredNames}

Optional(S) == {<< >>} \cup {<<v>> : v \in S}

\* what a capture group of a match can hold in the documents of the model
GroupValues == {None, << >>, <<"a">>, <<" ", "a">>}

MatchResults(p) == Optional([1..p.groups -> GroupValues])

\* the lines that differ in what the patterns of rs find in them
LineInputs(rs) ==
    {ln \in [1..Len(rs) -> UNION {MatchResults(p) : p \in PatternSpecs}] :
        \A i \in 1..Len(rs) : ln[i] \in MatchResults(rs[i])}

----------------------------------------------------------------------------
(* The processor *)

Init ==
    /\ pc = "new"
    /\ regexes_arg \in Optional(RegexConfigs)
    /\ required_arg \in Optional(RequiredLists)
    /\ regex_mode_enabled = FALSE
    /\ regexes = << >>
    /\ Line = << >>
    /\ required_fields = << >>
    /\ record = << >>
    /\ line = << >>
    /\ lineNo = 0
    /\ opened = FALSE
    /\ csvfile = << >>
    /\ rowLine = << >>
    /\ error = "none"
    /\ ret = << >>
    /\ ret2 = << >>

\* __init__ and initialize_regex_mode
Construct ==
    /\ pc = "new"
    /\ regex_mode_enabled' = (regexes_arg # << >>)
    /\ IF regexes_arg = << >>
       THEN /\ pc' = "ready"
            /\ UNCHANGED <<regexes, Line, required_fields, error>>
       ELSE LET rs == regexes_arg[1]
                names == field_names(rs)
                given == required_arg # << >> /\ required_arg[1] # << >>
            IN  /\ regexes' = rs
                /\ IF ~NoDuplicates(names)
                   THEN \* namedtuple rejects a duplicate field name
                        /\ pc' = "ctor_failed"
                        /\ error' = "ValueError"
                        /\ UNCHANGED <<Line, required_fields>>
                   ELSE /\ Line' = names
                        /\ IF given
                           THEN /\ required_fields' = required_arg[1]
                                /\ pc' = "ready"
                                /\ UNCHANGED error
                           ELSE IF names = << >>
                           THEN \* field_names[0] of an empty list
                                /\ pc' = "ctor_failed"
                                /\ error' = "IndexError"
                                /\ UNCHANGED required_fields
                           ELSE /\ required_fields' = <<names[1]>>
                                /\ pc' = "ready"
                                /\ UNCHANGED error
    /\ UNCHANGED <<regexes_arg, required_arg, record, line, lineNo, opened,
                   csvfile, rowLine, ret, ret2>>

\* ProcessStart with a bug: the regex-mode guard is missing, so the csv file
\* is opened before self.Line (None) is found to have no _fields
ProcessStartNoGuard ==
    /\ pc = "ready"
    /\ opened' = TRUE
    /\ IF ~regex_mode_enabled
       THEN /\ pc' = "failed"
            /\ error' = "AttributeError"
            /\ UNCHANGED <<csvfile, record>>
       ELSE /\ pc' = "loop"
            /\ csvfile' = <<Line>>
            /\ record' = empty_record(Line)
            /\ UNCHANGED error
    /\ UNCHANGED <<regexes_arg, required_arg, regex_mode_enabled, regexes, Line,
                   required_fields, line, lineNo, rowLine, ret, ret2>>

\* ProcessStart with a bug: the header row is not written
ProcessStartNoHeader ==
    /\ pc = "ready"
    /\ IF ~regex_mode_enabled
       THEN /\ pc' = "failed"
            /\ error' = "RuntimeError"
            /\ UNCHANGED <<opened, csvfile, record>>
       ELSE /\ pc' = "loop"
            /\ opened' = TRUE
            /\ csvfile' = << >>
            /\ record' = empty_record(Line)
            /\ UNCHANGED error
    /\ UNCHANGED <<regexes_arg, required_arg, regex_mode_enabled, regexes, Line,
                   required_fields, line, lineNo, rowLine, ret, ret2>>

\* process_pdf up to the page loop: the guard, the opening of the csv file,
\* the header row and the first value of record
ProcessStart ==
    /\ pc = "ready"
    /\ IF ~regex_mode_enabled
       THEN /\ pc' = "failed"
            /\ error' = "RuntimeError"
            /\ UNCHANGED <<opened, csvfile, record>>
       ELSE /\ pc' = "loop"
            /\ opened' = TRUE
            /\ csvfile' = <<Line>>
            /\ record' = empty_record(Line)
            /\ UNCHANGED error
    /\ UNCHANGED <<regexes_arg, required_arg, regex_mode_enabled, regexes, Line,
                   required_fields, line, lineNo, rowLine, ret, ret2>>

\* ProcessLine with a bug: completion is also tested right after the first
\* pattern; when it holds there the row is written at once and the matches
\* of the later patterns go into the next record
ProcessLineEarlyCheck ==
    /\ pc = "loop"
    /\ lineNo < MaxLines
    /\ \E ln \in LineInputs(regexes) :
        LET first == IF regexes = << >> THEN record
                     ELSE ApplyMatch(record, regexes[1], ln[1])
            early == is_record_complete(first, required_fields)
            r == extract_data_from_line(regexes, ln, record)
            complete == is_record_complete(r, required_fields)
        IN  /\ line' = <<ln>>
            /\ lineNo' = lineNo + 1
            /\ IF complete = "AttributeError"
               THEN /\ pc' = "failed"
                    /\ error' = "AttributeError"
                    /\ record' = r
                    /\ UNCHANGED <<csvfile, rowLine>>
               ELSE IF early = "True"
               THEN /\ csvfile' = Append(csvfile, CsvRow(Line, parse_record(first)))
                    /\ rowLine' = Append(rowLine, lineNo + 1)
                    /\ record' = ExtractFrom(regexes, ln, empty_record(Line), 2)
                    /\ UNCHANGED <<pc, error>>
               ELSE IF complete = "True"
               THEN /\ csvfile' = Append(csvfile, CsvRow(Line, parse_record(r)))
                    /\ rowLine' = Append(rowLine, lineNo + 1)
                    /\ record' = empty_record(Line)
                    /\ UNCHANGED <<pc, error>>
               ELSE /\ record' = r
                    /\ UNCHANGED <<pc, error, csvfile, rowLine>>
    /\ UNCHANGED <<regexes_arg, required_arg, regex_mode_enabled, regexes, Line,
                   required_fields, opened, ret, ret2>>

\* ProcessLine with a bug: the record is not reset after its row is written
ProcessLineNoReset ==
    /\ pc = "loop"
    /\ lineNo < MaxLines
    /\ \E ln \in LineInputs(regexes) :
        LET r == extract_data_from_line(regexes, ln, record)
            complete == is_record_complete(r, required_fields)
        IN  /\ line' = <<ln>>
            /\ lineNo' = lineNo + 1
            /\ IF complete = "AttributeError"
               THEN /\ pc' = "failed"
                    /\ error' = "AttributeError"
                    /\ record' = r
                    /\ UNCHANGED <<csvfile, rowLine>>
               ELSE IF complete = "True"
               THEN /\ csvfile' = Append(csvfile, CsvRow(Line, parse_record(r)))
                    /\ rowLine' = Append(rowLine, lineNo + 1)
                    /\ record' = parse_record(r)
                    /\ UNCHANGED <<pc, error>>
               ELSE /\ record' = r
                    /\ UNCHANGED <<pc, error, csvfile, rowLine>>
    /\ UNCHANGED <<regexes_arg, required_arg, regex_mode_enabled, regexes, Line,
                   required_fields, opened, ret, ret2>>

\* one pass of the loop over the lines of the document
ProcessLine ==
    /\ pc = "loop"
    /\ lineNo < MaxLines
    /\ \E ln \in LineInputs(regexes) :
        LET r == extract_data_from_line(regexes, ln, record)
            complete == is_record_complete(r, required_fields)
        IN  /\ line' = <<ln>>
            /\ lineNo' = lineNo + 1
            /\ IF complete = "AttributeError"
               THEN /\ pc' = "failed"
                    /\ error' = "AttributeError"
                    /\ record' = r
                    /\ UNCHANGED <<csvfile, rowLine>>
               ELSE IF complete = "True"
               THEN /\ csvfile' = Append(csvfile, CsvRow(Line, parse_record(r)))
                    /\ rowLine' = Append(rowLine, lineNo + 1)
                    /\ record' = empty_record(Line)
                    /\ UNCHANGED <<pc, error>>
               ELSE /\ record' = r
                    /\ UNCHANGED <<pc, error, csvfile, rowLine>>
    /\ UNCHANGED <<regexes_arg, required_arg, regex_mode_enabled, regexes, Line,
                   required_fields, opened, ret, ret2>>

\* ProcessEnd with a bug: the remaining record is written even when it is empty
ProcessEndAlwaysWrites ==
    /\ pc = "loop"
    /\ pc' = "done"
    /\ csvfile' = Append(csvfile, CsvRow(Line, record))
    /\ rowLine' = Append(rowLine, lineNo + 1)
    /\ UNCHANGED <<regexes_arg, required_arg, regex_mode_enabled, regexes, Line,
                   required_fields, record, line, lineNo, opened, error, ret, ret2>>

\* ProcessEnd with a bug: the remaining record is never written
ProcessEndNoFlush ==
    /\ pc = "loop"
    /\ pc' = "done"
    /\ UNCHANGED <<regexes_arg, required_arg, regex_mode_enabled, regexes, Line,
                   required_fields, record, line, lineNo, opened, csvfile,
                   rowLine, error, ret, ret2>>

\* the end of the document: the write of the remaining record
ProcessEnd ==
    /\ pc = "loop"
    /\ pc' = "done"
    /\ IF record # empty_record(Line)
       THEN /\ csvfile' = Append(csvfile, CsvRow(Line, record))
            /\ rowLine' = Append(rowLine, lineNo + 1)
       ELSE UNCHANGED <<csvfile, rowLine>>
    /\ UNCHANGED <<regexes_arg, required_arg, regex_mode_enabled, regexes, Line,
                   required_fields, record, line, lineNo, opened, error, ret, ret2>>

Next == Construct \/ ProcessStart \/ ProcessLine \/ ProcessEnd

Spec == Init /\ [][Next]_vars

----------------------------------------------------------------------------
(* Direct calls of parse_record on any record of a two-field schema *)

AnyValues == {None} \cup StringsUpTo(MaxStrLen)

InitParse ==
    /\ pc = "parse0"
    /\ regexes_arg = << >>
    /\ required_arg = << >>
    /\ regex_mode_enabled = TRUE
    /\ regexes = <<[name |-> x, groups |-> 1], [name |-> y, groups |-> 1]>>
    /\ Line = field_names(regexes)
    /\ required_fields = <<x>>
    /\ record \in [Range(Line) -> AnyValues]
    /\ line = << >>
    /\ lineNo = 0
    /\ opened = FALSE
    /\ csvfile = << >>
    /\ rowLine = << >>
    /\ error = "none"
    /\ ret = << >>
    /\ ret2 = << >>

\* ret = parse_record(record)
ParseOnce ==
    /\ pc = "parse0"
    /\ pc' = "parse1"
    /\ ret' = parse_record(record)
    /\ UNCHANGED <<regexes_arg, required_arg, regex_mode_enabled, regexes, Line,
                   required_fields, record, line, lineNo, opened, csvfile,
                   rowLine, error, ret2>>

\* ret2 = parse_record(ret)
ParseAgain ==
    /\ pc = "parse1"
    /\ pc' = "parse2"
    /\ ret2' = parse_record(ret)
    /\ UNCHANGED <<regexes_arg, required_arg, regex_mode_enabled, regexes, Line,
                   required_fields, record, line, lineNo, opened, csvfile,
                   rowLine, error, ret>>

NextParse == ParseOnce \/ ParseAgain

SpecParse == InitParse /\ [][NextParse]_vars

----------------------------------------------------------------------------
(* Direct calls of is_record_complete on any record of a two-field schema *)

InitComplete ==
    /\ pc = "complete0"
    /\ regexes_arg = << >>
    /\ required_arg = << >>
    /\ regex_mode_enabled = TRUE
    /\ regexes = <<[name |-> x, groups |-> 1], [name |-> y, groups |-> 1]>>
    /\ Line = field_names(regexes)
    /\ required_fields \in RequiredLists \ {<< >>}
    /\ record \in [Range(Line) -> GroupValues \cup {<<" ">>}]
    /\ line = << >>
    /\ lineNo = 0
    /\ opened = FALSE
    /\ csvfile = << >>
    /\ rowLine = << >>
    /\ error = "none"
    /\ ret = << >>
    /\ ret2 = << >>

\* ret = <<what the call returned or raised>>; the record is an immutable
\* namedtuple that the method only reads
CallIsRecordComplete ==
    /\ pc = "complete0"
    /\ pc' = "complete1"
    /\ ret' = <<is_record_complete(record, required_fields)>>
    /\ UNCHANGED <<regexes_arg, required_arg, regex_mode_enabled, regexes, Line,
                   required_fields, record, line, lineNo, opened, csvfile,
                   rowLine, error, ret2>>

NextComplete == CallIsRecordComplete

SpecComplete == InitComplete /\ [][NextComplete]_vars

----------------------------------------------------------------------------
(* Properties *)

\* the record that the line read in this step leaves before completion is tested
AppliedRecord == extract_data_from_line(regexes, line'[1], record)

\* a step of the line loop, and the steps of process_pdf that write a data row
LineStep == pc = "loop" /\ lineNo' = lineNo + 1
EndStep == pc = "loop" /\ pc' = "done"
RowWritten == pc = "loop" /\ Len(csvfile') = Len(csvfile) + 1
LastRow(rows) == rows[Len(rows)]

\* C1: with required fields {x, y}, the line loop emits a row on a line
\* exactly when, after that line was applied, both x and y are non-null: a
\* record with x set and y null is not emitted, and a record whose x and y
\* are both non-null is emitted on that very line.
C1_EmittedExactlyWhenBothNonNull ==
    [][(LineStep /\ Range(required_fields) = {x, y} /\ {x, y} \subseteq Range(Line))
          => (RowWritten <=> (AppliedRecord[x] # None /\ AppliedRecord[y] # None))]_vars

\* C2: is_record_complete returns true if and only if every required field
\* of the record is non-null, whatever the non-null value is.
C2_CompleteIffAllNonNull ==
    (pc = "complete1" /\ Range(required_fields) \subseteq DOMAIN record)
        => (ret[1] = "True" <=> \A f \in Range(required_fields) : record[f] # None)

\* C3: at the end of the line stream, a live record with some non-null
\* field adds exactly one row, in which every unset field is empty; a live
\* record whose fields are all null adds no row.
C3_EndOfStreamFlush ==
    [][EndStep =>
          IF \E f \in DOMAIN record : record[f] # None
          THEN /\ Len(csvfile') = Len(csvfile) + 1
               /\ SubSeq(csvfile', 1, Len(csvfile)) = csvfile
               /\ Len(LastRow(csvfile')) = Len(Line)
               /\ \A i \in 1..Len(Line) :
                      record[Line[i]] = None => LastRow(csvfile')[i] = << >>
          ELSE csvfile' = csvfile]_vars

\* C3 witness: the stream ended on a partially filled record, which was flushed
C3_Witness ==
    /\ pc = "done"
    /\ \E f \in DOMAIN record : record[f] # None
    /\ \E f \in DOMAIN record : record[f] = None
    /\ rowLine # << >>
    /\ LastRow(rowLine) = lineNo + 1

\* C4: every data row written, by a completion or by the flush at the end
\* of input, is the normalized form of the live record.
C4_EveryRowNormalized ==
    [][RowWritten =>
          LastRow(csvfile') =
              CsvRow(Line, parse_record(IF EndStep THEN record ELSE AppliedRecord))]_vars

\* C5: parse_record(parse_record(r)) = parse_record(r) for every record r.
C5_NormalizeIdempotent == pc = "parse2" => ret2 = ret

\* C6: once the output is open it holds the header (the field names in
\* schema order) as its first row and one row per emission after it; rows
\* are only ever appended, at increasing line numbers, and the row of the
\* final flush comes after the rows of all lines.
C6_HeaderFirstRowsInLineOrder ==
    /\ [](IF opened
          THEN /\ csvfile # << >>
               /\ csvfile[1] = Line
               /\ Len(csvfile) = 1 + Len(rowLine)
               /\ \A i, j \in DOMAIN rowLine : i < j => rowLine[i] < rowLine[j]
               /\ \A i \in DOMAIN rowLine :
                      rowLine[i] <= lineNo \/ (pc = "done" /\ i = Len(rowLine))
          ELSE csvfile = << >>)
    /\ [][opened => SubSeq(csvfile', 1, Len(csvfile)) = csvfile]_vars
    /\ [][RowWritten => LastRow(rowLine') = lineNo + 1]_vars

\* C6 witness: a row completed on a line, then the row of the final flush
C6_Witness ==
    /\ pc = "done"
    /\ Len(csvfile) = 3
    /\ rowLine = <<1, lineNo + 1>>

\* C7: a configuration with a pattern of zero capture groups never gets
\* past construction: construction fails and nothing is ever written.
C7_ZeroGroupPatternRejected ==
    (pc # "new" /\ regexes_arg # << >>
        /\ \E i \in DOMAIN regexes_arg[1] : regexes_arg[1][i].groups = 0)
        => (pc = "ctor_failed" /\ ~opened /\ csvfile = << >>)

\* C8: process never fails on the configuration once the output has been
\* opened: every configuration error has surfaced at construction.
C8_NoConfigurationErrorAfterOpen == pc = "failed" => ~opened

\* C9: process on a processor constructed without patterns raises before
\* anything is opened or written.
C9_ProcessWithoutPatternsFails ==
    (regexes_arg = << >> /\ pc \notin {"new", "ready"})
        => /\ pc = "failed"
           /\ error = "RuntimeError"
           /\ ~opened
           /\ csvfile = << >>

\* C9 witness: process was called on a processor constructed without patterns
C9_Witness == regexes_arg = << >> /\ pc = "failed"

\* C10: a line changes no field whose pattern did not match it: such a
\* field keeps its value in the live record, and when the record is emitted
\* on that line the row carries that value (normalized).
C10_FieldPersistence ==
    [][LineStep =>
          \A i \in DOMAIN regexes :
              line'[1][i] = << >> =>
                  \A k \in DOMAIN PatternFields(regexes[i]) :
                      LET f == PatternFields(regexes[i])[k]
                          col == CHOOSE c \in DOMAIN Line : Line[c] = f
                      IN  IF RowWritten
                          THEN LastRow(csvfile')[col] = CsvCell(CleanedValue(record[f]))
                          ELSE record'[f] = record[f]]_vars

\* C10 witness: a field set on line 1 is still there after line 2, which
\* its pattern did not match
C10_Witness ==
    /\ pc = "loop"
    /\ lineNo = 2
    /\ \E i \in DOMAIN regexes :
          /\ line[1][i] = << >>
          /\ \E k \in DOMAIN PatternFields(regexes[i]) :
                 record[PatternFields(regexes[i])[k]] # None

\* the number of fields the patterns before the i-th one contribute
RECURSIVE FieldsBefore(_, _)
FieldsBefore(rs, i) ==
    IF i <= 1 THEN 0
    ELSE FieldsBefore(rs, i - 1)
            + (IF rs[i - 1].groups = 1 THEN 1 ELSE rs[i - 1].groups)

\* C11: after a successful construction with patterns, the field list is
\* the concatenation, in pattern order, of the name of each one-group
\* pattern and of name_1 .. name_g for each pattern with g > 1 groups, and
\* the header row written by process is that list.
C11_SchemaDerivation ==
    (regex_mode_enabled /\ pc \in {"ready", "loop", "done", "failed"})
        => LET rs == regexes_arg[1]
           IN  /\ Len(Line) = FieldsBefore(rs, Len(rs) + 1)
               /\ \A i \in DOMAIN rs :
                      IF rs[i].groups = 1
                      THEN Line[FieldsBefore(rs, i) + 1] = rs[i].name
                      ELSE \A k \in 1..rs[i].groups :
                               Line[FieldsBefore(rs, i) + k]
                                   = rs[i].name \o <<"_">> \o <<Digits[k]>>
               /\ opened => csvfile[1] = Line

\* C11 witness: the header of a two-group pattern followed by a one-group one
C11_Witness ==
    /\ opened
    /\ Len(regexes) = 2
    /\ regexes[1].groups = 2
    /\ csvfile[1] = <<<<"x", "_", "1">>, <<"x", "_", "2">>, <<"y">>>>

\* the column of field f in the rows of the csv file
Column(f) == CHOOSE c \in DOMAIN Line : Line[c] = f

\* C12: with a single delimiter field d, the loop emits a row on a line
\* exactly when d is non-null after that line was applied; the row holds
\* the record accumulated up to and including that line and the next
\* record starts empty.
C12_DelimiterFieldCompletion ==
    [][(LineStep /\ Len(required_fields) = 1 /\ required_fields[1] \in Range(Line))
          => /\ RowWritten <=> AppliedRecord[required_fields[1]] # None
             /\ RowWritten =>
                    /\ LastRow(csvfile') = CsvRow(Line, parse_record(AppliedRecord))
                    /\ record' = empty_record(Line)]_vars

\* C13: a match of a pattern with g > 1 groups sets each of its g suffixed
\* fields to the corresponding group of that match, null for a group that
\* did not participate, whatever the field held before: the values are in
\* the live record after the line, or (normalized) in the row emitted on it.
C13_MultiGroupMatchSetsAllFields ==
    [][LineStep =>
          \A i \in DOMAIN regexes :
              (regexes[i].groups > 1 /\ line'[1][i] # << >>) =>
                  \A k \in 1..regexes[i].groups :
                      LET f == regexes[i].name \o <<"_", Digits[k]>>
                          v == line'[1][i][1][k]
                      IN  IF RowWritten
                          THEN LastRow(csvfile')[Column(f)] = CsvCell(CleanedValue(v))
                          ELSE record'[f] = v]_vars

\* C13 witness: the second line matched the two-group pattern with a first
\* group that did not participate, and both fields hold that match
C13_Witness ==
    /\ pc = "loop"
    /\ lineNo = 2
    /\ regexes # << >>
    /\ regexes[1] = [name |-> x, groups |-> 2]
    /\ line[1][1] = << <<None, <<"a">>>> >>
    /\ record[<<"x", "_", "1">>] = None
    /\ record[<<"x", "_", "2">>] = <<"a">>

\* the orders in which n patterns can be tried
PatternOrders(n) ==
    {perm \in [1..n -> 1..n] : \A i, j \in 1..n : i # j => perm[i] # perm[j]}

\* extract_data_from_line with the patterns tried in the order perm
ExtractInOrder(perm, ln, r) ==
    extract_data_from_line([i \in DOMAIN perm |-> regexes[perm[i]]],
                           [i \in DOMAIN perm |-> ln[perm[i]]], r)

\* C14: whatever the order in which the patterns are tried on a line, the
\* resulting record is the one the line step leaves: the live record after
\* the line, or the record whose normalized form is the row emitted on it.
C14_PatternOrderIndependence ==
    [][LineStep =>
          \A perm \in PatternOrders(Len(regexes)) :
              LET r == ExtractInOrder(perm, line'[1], record)
              IN  IF RowWritten
                  THEN LastRow(csvfile') = CsvRow(Line, parse_record(r))
                  ELSE record' = r]_vars

\* C14 witness: two patterns matched the same line and both values are in
\* the live record
C14_Witness ==
    /\ pc = "loop"
    /\ lineNo = 1
    /\ Len(regexes) = 2
    /\ line[1][1] # << >>
    /\ line[1][2] # << >>
    /\ \A f \in DOMAIN record : record[f] # None
    /\ DOMAIN record # {}

\* C15: a row emitted on a line holds the values of every pattern that
\* matched that line, whatever its place in the pattern order, and the
\* record carried to the next line is empty: completion is tested once,
\* after all patterns were applied.
C15_CompletionAfterAllPatterns ==
    [][(LineStep /\ RowWritten) =>
          /\ record' = [f \in Range(Line) |-> None]
          /\ \A i \in DOMAIN regexes :
                 line'[1][i] # << >> =>
                     \A k \in 1..regexes[i].groups :
                         LastRow(csvfile')[Column(PatternFields(regexes[i])[k])]
                             = CsvCell(CleanedValue(line'[1][i][1][k]))]_vars

\* C15 witness: the first pattern completed the record on a line that the
\* second pattern matched too; its value is in the row and the record is empty
C15_Witness ==
    /\ pc = "loop"
    /\ lineNo = 1
    /\ rowLine = <<1>>
    /\ regexes = <<[name |-> x, groups |-> 1], [name |-> y, groups |-> 1]>>
    /\ required_fields = <<x>>
    /\ line[1][2] = << << <<" ", "a">> >> >>
    /\ csvfile[2][2] = <<"a">>
    /\ record = [f \in {x, y} |-> None]

\* C16: parse_record keeps null fields null and turns every non-null field,
\* the empty and the whitespace-only string included, into its
\* whitespace-collapsed, trimmed string, never into null.
C16_NormalizePreservesNullness ==
    pc = "parse1" =>
        \A f \in DOMAIN record :
            IF record[f] = None
            THEN ret[f] = None
            ELSE ret[f] = Strip(CollapseWhitespace(record[f]))

\* C17: the live record that process carries from one line to the next, and
\* to the final flush, is never complete according to is_record_complete.
C17_CarriedRecordIncomplete ==
    pc \in {"loop", "done"} => is_record_complete(record, required_fields) # "True"

\* C18: a line adds at most one data row, the final flush adds a row only
\* when there was a line and the last line added none, and the number of
\* data rows never exceeds the number of lines read.
C18_RowsAtMostLines ==
    /\ [](opened => Len(csvfile) - 1 <= lineNo)
    /\ [](~opened => Len(csvfile) = 0)
    /\ [][LineStep => Len(csvfile') \in {Len(csvfile), Len(csvfile) + 1}]_vars
    /\ [][(EndStep /\ csvfile' # csvfile) =>
              /\ Len(csvfile') = Len(csvfile) + 1
              /\ lineNo >= 1
              /\ (rowLine = << >> \/ LastRow(rowLine) # lineNo)]_vars

\* C18 witness: two lines, each of which completed a record, and no flush
C18_Witness ==
    /\ pc = "done"
    /\ lineNo = 2
    /\ rowLine = <<1, 2>>
    /\ Len(csvfile) = 3

\* the value field f holds once the line read in this step is applied: the
\* group of the match of its pattern, or what it held before
ValueAfterLine(f) ==
    IF \E i \in DOMAIN regexes :
           line'[1][i] # << >> /\ \E k \in 1..regexes[i].groups :
                                      PatternFields(regexes[i])[k] = f
    THEN LET i == CHOOSE i \in DOMAIN regexes :
                      \E k \in 1..regexes[i].groups : PatternFields(regexes[i])[k] = f
             k == CHOOSE k \in 1..regexes[i].groups : PatternFields(regexes[i])[k] = f
         IN  line'[1][i][1][k]
    ELSE record[f]

\* C19: in a run that ends normally no captured value is lost: a non-null
\* value that a line leaves in a field (captured on that line, or carried
\* and not overwritten by it) stays in the live record or is written,
\* normalized, in the row emitted on that line, after which the record is
\* empty so that it is written only once; at the end of input every
\* non-null value of the live record is written in the final row.
C19_NoCapturedValueLost ==
    /\ [][(LineStep /\ pc' = "loop") =>
              \A f \in Range(Line) :
                  ValueAfterLine(f) # None =>
                      IF RowWritten
                      THEN /\ LastRow(csvfile')[Column(f)]
                                  = CsvCell(CleanedValue(ValueAfterLine(f)))
                           /\ record'[f] = None
                      ELSE record'[f] = ValueAfterLine(f)]_vars
    /\ [][EndStep =>
              \A f \in Range(Line) :
                  record[f] # None =>
                      /\ RowWritten
                      /\ CsvCell(CleanedValue(LastRow(csvfile')[Column(f)]))
                             = CsvCell(CleanedValue(record[f]))]_vars

\* C19 witness: a value emitted by a completion and a value emitted by the
\* final flush
C19_Witness ==
    /\ pc = "done"
    /\ Len(csvfile) = 3
    /\ \E c \in DOMAIN Line : csvfile[2][c] # << >>
    /\ \E c \in DOMAIN Line : csvfile[3][c] # << >>

====
